---- MODULE Spec2Model ----
(***************************************************************************)
(* Model of the OpenList metadata-correction endpoint (POST                *)
(* /api/openlist/correct) and of OpenListClient, the remote-file client    *)
(* with its 401 refresh-and-retry wrapper.                                 *)
(*                                                                         *)
(* Every request is an asynchronous task of one Node.js process.  A task   *)
(* runs without interruption between two awaited network calls, so each    *)
(* action below is the code from the arrival of one awaited result up to   *)
(* the next network call.  The storage server is the environment: it       *)
(* answers every request with a status of its choice or the call fails     *)
(* with a network error, and it stores an uploaded document exactly when   *)
(* it answers the PUT with a success status.                               *)
(***************************************************************************)
EXTENDS Integers, Sequences, FiniteSets, TLC

(* ------------------------------ bounds -------------------------------- *)
\* Date.now() takes values 1..MaxClock.
MaxClock == 2
\* Number of calls (corrections or direct client calls) started in one run.
MaxRequests == 3
\* Length, in segments and separators, of a configured root path.
MaxRootLen == 4

(* ------------------------------ values -------------------------------- *)
\* The request tasks that can be in flight at the same time.
Procs == {"p1", "p2"}
Folders == {"F", "G"}
\* JavaScript undefined, the empty string, the number 0 (numbers are written
\* as their JSON literal) and null (a reference to no object).
Undef == "undefined"
EmptyString == ""
Zero == "0"
Null == "null"
\* HTTP statuses the storage server answers with (0 stands for no response
\* received yet).
Statuses == {200, 401, 500}
\* The token the login endpoint issues to a client holding token t: the
\* server never issues the same token twice.
FreshToken(t) ==
    IF t = "t0" THEN "t1" ELSE IF t = "t1" THEN "t2" ELSE "t3"

\* value || fallback (part_000 lines 102-104), !value (lines 24, 31, 41; client 75, 105)
Falsy(v) == v \in {Undef, EmptyString, Zero}
OrElse(v, d) == IF Falsy(v) THEN d ELSE v
\* response.ok
Ok(st) == st >= 200 /\ st <= 299

(* --------------------------- the document ----------------------------- *)
\* JSON.stringify drops the keys whose value is undefined; last_updated is a
\* number and failed a boolean, both always defined.
StringifyEntry(e) ==
    LET keep == {k \in DOMAIN e :
                    IF k \in {"last_updated", "failed"} THEN TRUE ELSE e[k] # Undef}
    IN  [k \in keep |-> e[k]]

\* The text of a document: JSON.stringify(metaInfo, null, 2).
JSONstringify(doc) ==
    [kind |-> "json",
     folders |-> [f \in DOMAIN doc.folders |-> StringifyEntry(doc.folders[f])]]

\* A body that is not JSON.
Malformed == [kind |-> "malformed", folders |-> <<>>]

\* JSON.parse(content): the document of a JSON text (it throws on any other).
JSONparse(text) == [folders |-> text.folders]

\* Reading a key of an object: undefined when the object has no such key.
Get(e, k) == IF k \in DOMAIN e THEN e[k] ELSE Undef

\* An entry written by an earlier scan.
OldEntry(id) ==
    [last_updated |-> 0, failed |-> TRUE,
     tmdb_id |-> id, title |-> "Old", poster_path |-> "/old.jpg",
     release_date |-> "2001-01-01", overview |-> "old", vote_average |-> "5",
     media_type |-> "tv"]

\* The documents the remote metainfo.json can hold before the first request.
InitialDocs ==
    {[folders |-> [f \in {"G"} |-> OldEntry("90")]]}

(* ----------------------------- requests ------------------------------- *)
\* The optional fields of a request body: all given, none given, and given
\* with falsy values.
Payloads ==
    {[title |-> "A", overview |-> "text", posterPath |-> "/a.jpg",
      releaseDate |-> "2020-02-02", voteAverage |-> "7", mediaType |-> "movie"],
     [title |-> Undef, overview |-> Undef, posterPath |-> Undef,
      releaseDate |-> Undef, voteAverage |-> Undef, mediaType |-> Undef],
     [title |-> "B", overview |-> EmptyString, posterPath |-> Undef,
      releaseDate |-> EmptyString, voteAverage |-> Zero, mediaType |-> "tv"]}

MakeBody(folder, tmdbId, p) ==
    [title |-> p.title, overview |-> p.overview,
     posterPath |-> p.posterPath, releaseDate |-> p.releaseDate,
     voteAverage |-> p.voteAverage, mediaType |-> p.mediaType,
     folder |-> folder, tmdbId |-> tmdbId]

NoPayload == CHOOSE p \in Payloads : p.title = Undef

\* The JSON bodies a request can carry: every valid correction, a body
\* without folder and a body without tmdbId.
Bodies ==
    {MakeBody(f, "101", p) : f \in Folders, p \in Payloads}
    \cup {MakeBody(Undef, "101", NoPayload), MakeBody("F", Undef, NoPayload)}

NoBody == MakeBody(Undef, Undef, NoPayload)

(* ------------------------------- paths -------------------------------- *)
\* A path is the sequence of its separators and segments: "/media" is
\* <<"/", "media">>; the empty sequence is the empty string.
Separator == "/"
FileName == "metainfo.json"
RootTokens == {Separator, "media"}

\* OpenListConfig.RootPath: not given, or a string.
NoRootPath == [given |-> FALSE, path |-> <<>>]
RootPaths ==
    {NoRootPath}
    \cup {[given |-> TRUE, path |-> q] :
             q \in UNION {[1..n -> RootTokens] : n \in 0..MaxRootLen}}

\* openListConfig.RootPath || '/' (line 48): undefined and "" are falsy.
RootPathOrDefault(rp) ==
    IF ~rp.given \/ rp.path = <<>> THEN <<Separator>> ELSE rp.path

\* rootPath.endsWith('/')
EndsWithSeparator(q) == Len(q) > 0 /\ q[Len(q)] = Separator

\* `${rootPath}${rootPath.endsWith('/') ? '' : '/'}metainfo.json`, lines 61
\* and 111.
MetainfoPath(rootPath) ==
    rootPath
        \o (IF EndsWithSeparator(rootPath) THEN <<>> ELSE <<Separator>>)
        \o <<FileName>>

\* config.OpenListConfig: not configured, token only, token with both
\* credentials, token with a username and no password.
Configs ==
    {[URL |-> Undef, Token |-> Undef, Username |-> Undef, Password |-> Undef,
      RootPath |-> NoRootPath],
     [URL |-> "http://o", Token |-> "t0", Username |-> Undef, Password |-> Undef,
      RootPath |-> NoRootPath],
     [URL |-> "http://o", Token |-> "t0", Username |-> "u", Password |-> "p",
      RootPath |-> NoRootPath],
     [URL |-> "http://o", Token |-> "t0", Username |-> "u", Password |-> Undef,
      RootPath |-> NoRootPath]}

(* ------------------------------- state -------------------------------- *)
VARIABLES
    now,      \* Date.now()
    started,  \* number of calls started so far
    config,   \* config.OpenListConfig
    remote,   \* text of metainfo.json on the storage server
    cache,    \* Metadata Cache entry of the root: a reference to a document object, or Null
    heap,     \* the document objects, one per task that parsed a document
    pc,       \* where each task is suspended
    client,   \* each task's OpenListClient: token, username, password
    call,     \* each task's fetchWithRetry call: parameters and locals
    local,    \* each task's handler locals
    stats     \* each task's count of logins and requests

vars == <<now, started, config, remote, cache, heap, pc, client, call, local, stats>>

NoClient == [token |-> Undef, username |-> Undef, password |-> Undef]

\* op: the client method whose request is in flight; top: the client method
\* the caller invoked (uploadFile for the refreshDirectory it ends with);
\* auth: options.headers.Authorization; retried, response, refreshed: the
\* parameter and locals of the innermost fetchWithRetry frame; first: the
\* response held by the outer frame while the retry runs; ret: which response
\* the wrapper returned (1: the first, 2: the retry's, 0: none yet).
NoCall ==
    [op |-> "none", top |-> "none", auth |-> Undef, retried |-> FALSE,
     first |-> 0, response |-> 0, refreshed |-> "none",
     ret |-> 0]

\* handler: "POST" for a correction, "direct" for a client method called by
\* another caller; session: whether the request carried a valid session
\* (line 23); issued: Date.now() when the request arrived; stamp: the
\* last_updated this correction wrote; put: whether the server stored this
\* correction's upload; status: the status of the response (0: none yet);
\* rootPath: the root path of line 48; metainfoPath: the path given to
\* getFile (line 61); uploadPath: the path given to uploadFile (line 111),
\* each the empty sequence until the line ran;
\* hit: whether line 57 found a cached document; overlapped: whether
\* another request was in flight when this one arrived; fileResponse: what getFile
\* returned (line 62); contentResponse: status and text of the download
\* (lines 66-78); before: the cache entry,
\* the cached document and the remote text as they were when the request
\* arrived.
NoLocal ==
    [rootPath |-> <<>>, handler |-> "none", session |-> FALSE,
     body |-> NoBody, metaInfo |-> Null, content |-> Malformed,
     issued |-> 0, stamp |-> 0, hit |-> FALSE, overlapped |-> FALSE,
     metainfoPath |-> <<>>, uploadPath |-> <<>>,
     fileResponse |-> [valid |-> FALSE, code |-> 0, raw_url |-> Undef],
     contentResponse |-> [text |-> Malformed, status |-> 0],
     status |-> 0,
     before |-> [doc |-> [folders |-> <<>>], remote |-> Malformed, ref |-> Null],
     put |-> FALSE]

\* logins, requests: of the current fetchWithRetry call; opLogins, opRetries:
\* of the current client method invoked by the caller; sent: the outbound
\* HTTP requests (storage calls, logins, download) the task issued so far.
NoStats ==
    [logins |-> 0, requests |-> 0, opLogins |-> 0, opRetries |-> 0, sent |-> 0]

NoDoc == [folders |-> <<>>]

Init ==
    /\ now = 1
    /\ started = 0
    /\ config \in Configs
    /\ remote \in {JSONstringify(d) : d \in InitialDocs} \cup {Malformed}
    /\ cache = Null
    /\ heap = [r \in Procs |-> NoDoc]
    /\ pc = [r \in Procs |-> "idle"]
    /\ client = [r \in Procs |-> NoClient]
    /\ call = [r \in Procs |-> NoCall]
    /\ local = [r \in Procs |-> NoLocal]
    /\ stats = [r \in Procs |-> NoStats]

(* --------------------------- OpenListClient --------------------------- *)
\* new OpenListClient(URL, Token, Username, Password)
NewClient(cfg) ==
    [token |-> cfg.Token, username |-> cfg.Username, password |-> cfg.Password]

\* login: the body of the login response passes the checks of lines 59-66.
LoginSucceeds(out) ==
    /\ Ok(out.status)
    /\ out.code = 200
    /\ ~Falsy(out.token)

\* Faulty variant: the token is assigned whatever the login answered.
TokenAfterLoginAlways(cl, out) == out.token

\* this.token after refreshToken ran login: assigned only when login returned.
TokenAfterLogin(cl, out) ==
    IF LoginSucceeds(out) THEN out.token ELSE cl.token

\* Faulty variant: the retried flag is not consulted.
ShouldRefreshAlways(st, retried, cl) ==
    /\ st = 401
    /\ ~Falsy(cl.username)
    /\ ~Falsy(cl.password)

\* Faulty variant: any error status triggers the refresh.
ShouldRefreshOnError(st, retried, cl) ==
    /\ st >= 400
    /\ ~retried
    /\ ~Falsy(cl.username)
    /\ ~Falsy(cl.password)

\* The condition of fetchWithRetry under which the token is refreshed.
ShouldRefresh(st, retried, cl) ==
    /\ st = 401
    /\ ~retried
    /\ ~Falsy(cl.username)
    /\ ~Falsy(cl.password)

\* refreshToken's own guard: it logs in only with both credentials.
CanLogin(cl) == ~(Falsy(cl.username) \/ Falsy(cl.password))

\* Faulty variant: the request is reissued with the options it was first sent with.
RetryAuthorizationStale(cl, options) == options.auth

\* The Authorization header of the reissued request.
RetryAuthorization(cl, options) == cl.token

\* The Authorization header a client method builds: getHeaders and uploadFile.
Authorization(cl) == cl.token

\* What the login endpoint can answer: HTTP status, code and token of the body.
LoginOutcomes(cl) ==
    {[token |-> FreshToken(cl.token), code |-> 200, status |-> 200],
     [token |-> Undef, code |-> 200, status |-> 200],
     [token |-> FreshToken(cl.token), code |-> 403, status |-> 200],
     [token |-> FreshToken(cl.token), code |-> 200, status |-> 500]}

Cap(n) == IF n >= 3 THEN 3 ELSE n + 1
\* One more outbound request (the count stops at 12).
Sent(n) == IF n >= 12 THEN 12 ELSE n + 1

\* A client method m (invoked by the caller as part of method t) calls
\* fetchWithRetry(url, options): the request is issued.
CallFetchWithRetry(r, m, t, cl) ==
    /\ call' = [call EXCEPT ![r] =
                    [op |-> m, top |-> t, auth |-> Authorization(cl),
                     retried |-> FALSE, first |-> 0, response |-> 0,
                     refreshed |-> "none", ret |-> 0]]
    /\ stats' = [stats EXCEPT ![r] =
                    [logins |-> 0, requests |-> 1,
                     opLogins |-> IF m = t THEN 0 ELSE @.opLogins,
                     opRetries |-> IF m = t THEN 0 ELSE @.opRetries,
                     sent |-> Sent(@.sent)]]
    /\ pc' = [pc EXCEPT ![r] = "fetch"]

\* The server stores the body of a PUT it answers with a success status.
Served(r, st) ==
    IF call[r].op = "uploadFile" /\ Ok(st) THEN local[r].content ELSE remote

\* fetchWithRetry, lines 102-120: the awaited fetch returned a response.
FetchResponse(r, st) ==
    /\ pc[r] = "fetch"
    /\ remote' = Served(r, st)
    /\ local' = [local EXCEPT ![r].put = @ \/ (call[r].op = "uploadFile" /\ Ok(st))]
    /\ IF ShouldRefresh(st, call[r].retried, client[r])
       THEN IF CanLogin(client[r])
            THEN /\ call' = [call EXCEPT ![r].response = st]
                 /\ pc' = [pc EXCEPT ![r] = "login"]
                 /\ stats' = [stats EXCEPT ![r].logins = Cap(@),
                                           ![r].opLogins = Cap(@),
                                           ![r].sent = Sent(@)]
            ELSE /\ call' = [call EXCEPT ![r].response = st,
                                         ![r].refreshed = "false",
                                         ![r].ret = 1]
                 /\ pc' = [pc EXCEPT ![r] = "returned"]
                 /\ UNCHANGED stats
       ELSE /\ call' = [call EXCEPT ![r].response = st,
                                    ![r].ret = IF call[r].retried THEN 2 ELSE 1]
            /\ pc' = [pc EXCEPT ![r] = "returned"]
            /\ UNCHANGED stats
    /\ UNCHANGED <<now, started, config, cache, heap, client>>

\* The awaited fetch rejected (network error): fetchWithRetry rejects too.
FetchThrows(r) ==
    /\ pc[r] = "fetch"
    /\ pc' = [pc EXCEPT ![r] = "threw"]
    /\ UNCHANGED <<now, started, config, remote, cache, heap, client, call,
                   local, stats>>

\* refreshToken, lines 79-91, and fetchWithRetry, lines 107-117: the login
\* request returned; on success the request is reissued with the new token.
LoginResponse(r, out) ==
    /\ pc[r] = "login"
    /\ client' = [client EXCEPT ![r].token = TokenAfterLogin(client[r], out)]
    /\ IF LoginSucceeds(out)
       THEN /\ call' = [call EXCEPT
                            ![r].auth = RetryAuthorization(client'[r], call[r]),
                            ![r].retried = TRUE,
                            ![r].first = call[r].response,
                            ![r].response = 0,
                            ![r].refreshed = "true"]
            /\ stats' = [stats EXCEPT ![r].requests = Cap(@),
                                      ![r].opRetries = Cap(@),
                                      ![r].sent = Sent(@)]
            /\ pc' = [pc EXCEPT ![r] = "fetch"]
       ELSE /\ call' = [call EXCEPT ![r].refreshed = "false", ![r].ret = 1]
            /\ pc' = [pc EXCEPT ![r] = "returned"]
            /\ UNCHANGED stats
    /\ UNCHANGED <<now, started, config, remote, cache, heap, local>>

\* The login request rejected (network error): refreshToken catches it.
LoginThrows(r) ==
    /\ pc[r] = "login"
    /\ call' = [call EXCEPT ![r].refreshed = "false", ![r].ret = 1]
    /\ pc' = [pc EXCEPT ![r] = "returned"]
    /\ UNCHANGED <<now, started, config, remote, cache, heap, client, local,
                   stats>>

(* --------------------------- Metadata Cache --------------------------- *)
\* getCachedMetaInfo(rootPath): the document object last set, or null.
getCachedMetaInfo(c) == c
\* invalidateMetaInfoCache(rootPath)
invalidateMetaInfoCache(c) == Null
\* setCachedMetaInfo(rootPath, metaInfo): the cache keeps the object itself.
setCachedMetaInfo(c, ref) == ref

(* ---------------------------- POST handler ---------------------------- *)
\* Faulty variant: the optional fields are stored as submitted, without defaults.
NewEntryNoDefaults(b, t) ==
    [last_updated |-> t,
     failed |-> FALSE,
     tmdb_id |-> b.tmdbId,
     title |-> b.title,
     poster_path |-> b.posterPath,
     release_date |-> b.releaseDate,
     overview |-> b.overview,
     vote_average |-> b.voteAverage,
     media_type |-> b.mediaType]

\* The Folder Entry a correction writes, lines 98-108.
NewEntry(b, t) ==
    [last_updated |-> t,
     failed |-> FALSE,
     tmdb_id |-> b.tmdbId,
     title |-> b.title,
     poster_path |-> b.posterPath,
     release_date |-> OrElse(b.releaseDate, EmptyString),
     overview |-> OrElse(b.overview, EmptyString),
     vote_average |-> OrElse(b.voteAverage, Zero),
     media_type |-> b.mediaType]

\* Faulty variant: an entry the document already has is kept.
SetFolderIfAbsent(doc, folder, e) ==
    [folders |-> [k \in (DOMAIN doc.folders) \cup {folder} |->
                     IF k \in DOMAIN doc.folders THEN doc.folders[k] ELSE e]]

\* metaInfo.folders[folder] = entry
SetFolder(doc, folder, e) ==
    [folders |-> [k \in (DOMAIN doc.folders) \cup {folder} |->
                     IF k = folder THEN e ELSE doc.folders[k]]]

\* Faulty variant: only the folder is validated.
MissingFolderOnly(b) == Falsy(b.folder)

\* The request fields validated at line 31.
MissingParameter(b) == Falsy(b.folder) \/ Falsy(b.tmdbId)

\* The configuration check of line 41.
NotConfigured(cfg) == Falsy(cfg.URL) \/ Falsy(cfg.Token)

\* A document object no task and no cache entry refers to is garbage.
Collect(h, c, l) ==
    [o \in Procs |->
        IF o = c \/ (\E q \in Procs : l[q].metaInfo = o) THEN h[o] ELSE NoDoc]

\* The handler returns a response with status st.
Reply(r, loc, st) ==
    /\ pc' = [pc EXCEPT ![r] = "done"]
    /\ local' = [local EXCEPT ![r] = [loc EXCEPT !.status = st]]
    /\ UNCHANGED <<call, stats, client>>

\* Lines 97-114: the document object ref is updated in place, serialized,
\* and uploadFile issues the PUT.
UpdateAndUpload(r, ref, doc, loc, cl) ==
    LET updated == SetFolder(doc, loc.body.folder, NewEntry(loc.body, now))
    IN  /\ heap' = [heap EXCEPT ![ref] = updated]
        /\ local' = [local EXCEPT ![r] =
                        [loc EXCEPT !.metaInfo = ref,
                                    !.content = JSONstringify(updated),
                                    !.stamp = now,
                                    !.uploadPath = MetainfoPath(loc.rootPath)]]
        /\ CallFetchWithRetry(r, "uploadFile", "uploadFile", cl)

\* Lines 21-62 (and 97-114 on a cache hit): a correction request arrives.
POST(r, session, b) ==
    LET loc == [NoLocal EXCEPT
                    !.handler = "POST", !.session = session, !.body = b,
                    !.issued = now,
                    !.overlapped = \E q \in Procs \ {r} :
                                       pc[q] \notin {"idle", "done"},
                    !.before = [doc |-> IF cache = Null THEN NoDoc ELSE heap[cache],
                                remote |-> remote,
                                ref |-> cache]]
        cl == NewClient(config)
        cached == getCachedMetaInfo(cache)
        rootPath == RootPathOrDefault(config.RootPath)
    IN  /\ pc[r] = "idle"
        /\ started < MaxRequests
        /\ started' = started + 1
        /\ IF ~session
           THEN Reply(r, loc, 401) /\ UNCHANGED heap
           ELSE IF MissingParameter(b)
           THEN Reply(r, loc, 400) /\ UNCHANGED heap
           ELSE IF NotConfigured(config)
           THEN Reply(r, loc, 400) /\ UNCHANGED heap
           ELSE /\ client' = [client EXCEPT ![r] = cl]
                /\ IF cached # Null
                   THEN UpdateAndUpload(r, cached, heap[cached],
                                        [loc EXCEPT !.hit = TRUE,
                                                    !.rootPath = rootPath], cl)
                   ELSE /\ local' = [local EXCEPT ![r] =
                                        [loc EXCEPT
                                            !.rootPath = rootPath,
                                            !.metainfoPath = MetainfoPath(rootPath)]]
                        /\ CallFetchWithRetry(r, "getFile", "getFile", cl)
                        /\ UNCHANGED heap
        /\ UNCHANGED <<now, config, remote, cache>>

\* What response.json() of /api/fs/get can be: code and data.raw_url, or
\* a body that is not JSON (valid = FALSE).
FileResponses ==
    {[valid |-> TRUE, code |-> 200, raw_url |-> "http://raw"],
     [valid |-> TRUE, code |-> 200, raw_url |-> Undef],
     [valid |-> TRUE, code |-> 500, raw_url |-> Undef],
     [valid |-> TRUE, code |-> 500, raw_url |-> "http://raw"],
     [valid |-> FALSE, code |-> 0, raw_url |-> Undef]}

\* A client method rejects when the request rejected or the status is not ok.
Rejects(r) == pc[r] = "threw" \/ ~Ok(call[r].response)

\* Faulty variant: the code of the answer is not looked at.
HasDownloadUrlAnyCode(fr) == ~Falsy(fr.raw_url)

\* The condition of line 64 under which the document is downloaded.
HasDownloadUrl(fr) == fr.code = 200 /\ ~Falsy(fr.raw_url)

\* getFile, lines 166-170, then POST, lines 64-95: the wrapper returned.
GetFileReturn(r, fr) ==
    /\ pc[r] \in {"returned", "threw"}
    /\ call[r].op = "getFile"
    /\ IF local[r].handler = "direct"
       THEN Reply(r, local[r], IF Rejects(r) \/ ~fr.valid THEN 500 ELSE 200)
       ELSE IF Rejects(r) \/ ~fr.valid
       THEN Reply(r, local[r], 500)
       ELSE IF HasDownloadUrl(fr)
       THEN /\ pc' = [pc EXCEPT ![r] = "download"]
            /\ local' = [local EXCEPT ![r].fileResponse = fr]
            /\ stats' = [stats EXCEPT ![r].sent = Sent(@)]
            /\ UNCHANGED <<client, call>>
       ELSE Reply(r, [local[r] EXCEPT !.fileResponse = fr], 404)
    /\ UNCHANGED <<now, started, config, remote, cache, heap>>

\* POST, lines 74-114: the download of raw_url returned with status st.
DownloadResponse(r, st) ==
    /\ pc[r] = "download"
    /\ LET loc == [local[r] EXCEPT
                       !.contentResponse =
                           [text |-> IF Ok(st) THEN remote ELSE Malformed,
                            status |-> st]]
       IN  IF ~Ok(st) \/ remote.kind # "json"
           THEN Reply(r, loc, 500) /\ UNCHANGED heap
           ELSE /\ UpdateAndUpload(r, r, JSONparse(remote), loc, client[r])
                /\ UNCHANGED client
    /\ UNCHANGED <<now, started, config, remote, cache>>

\* The download rejected (network error): caught at line 81.
DownloadThrows(r) ==
    /\ pc[r] = "download"
    /\ Reply(r, local[r], 500)
    /\ UNCHANGED <<now, started, config, remote, cache, heap>>

\* uploadFile, lines 186-193: the PUT's wrapper returned; a failed PUT
\* rejects (POST line 124 answers 500), a successful one refreshes the
\* directory.
UploadFileReturn(r) ==
    /\ pc[r] \in {"returned", "threw"}
    /\ call[r].op = "uploadFile"
    /\ IF Rejects(r)
       THEN Reply(r, local[r], 500)
       ELSE /\ CallFetchWithRetry(r, "refreshDirectory", "uploadFile", client[r])
            /\ UNCHANGED <<client, local>>
    /\ UNCHANGED <<now, started, config, remote, cache, heap>>

\* Faulty variant: a failed refresh request fails refreshDirectory.
RefreshRejectsUncaught(r) == Rejects(r)

\* refreshDirectory, lines 198-216: the try/catch around the request lets
\* no failure out.
RefreshRejects(r) == FALSE

\* Faulty variant: the cache entry is invalidated and not set again.
CacheInvalidatedOnly(c, ref) == invalidateMetaInfoCache(c)

\* Lines 117-118: the cache entry of the root after a successful upload.
CacheAfterUpload(c, ref) == setCachedMetaInfo(invalidateMetaInfoCache(c), ref)

\* refreshDirectory returns; then uploadFile returns and POST, lines
\* 117-123, updates the cache and answers 200.
RefreshDirectoryReturn(r) ==
    /\ pc[r] \in {"returned", "threw"}
    /\ call[r].op = "refreshDirectory"
    /\ IF RefreshRejects(r)
       THEN Reply(r, local[r], 500) /\ UNCHANGED cache
       ELSE /\ Reply(r, local[r], 200)
            /\ cache' = IF local[r].handler = "POST"
                        THEN CacheAfterUpload(cache, local[r].metaInfo)
                        ELSE cache
    /\ UNCHANGED <<now, started, config, remote, heap>>

\* listDirectory, lines 148-152, and deleteFile, lines 233-235.
OtherReturn(r) ==
    /\ pc[r] \in {"returned", "threw"}
    /\ call[r].op \in {"listDirectory", "deleteFile"}
    /\ Reply(r, local[r], IF Rejects(r) THEN 500 ELSE 200)
    /\ UNCHANGED <<now, started, config, remote, cache, heap>>

\* Another caller invokes a client method on a client of its own; the
\* status kept is 200 when the method resolves and 500 when it rejects.
Direct(r, m) ==
    /\ pc[r] = "idle"
    /\ started < MaxRequests
    /\ ~NotConfigured(config)
    /\ started' = started + 1
    /\ client' = [client EXCEPT ![r] = NewClient(config)]
    /\ local' = [local EXCEPT ![r] = [NoLocal EXCEPT !.handler = "direct"]]
    /\ CallFetchWithRetry(r, m, m, NewClient(config))
    /\ UNCHANGED <<now, config, remote, cache, heap>>

\* The response is delivered; the task is over, its client, its locals and
\* the document objects only it referred to are garbage.
Respond(r) ==
    /\ pc[r] = "done"
    /\ pc' = [pc EXCEPT ![r] = "idle"]
    /\ local' = [local EXCEPT ![r] = NoLocal]
    /\ call' = [call EXCEPT ![r] = NoCall]
    /\ stats' = [stats EXCEPT ![r] = NoStats]
    /\ client' = [client EXCEPT ![r] = NoClient]
    /\ heap' = Collect(heap, cache, local')
    /\ UNCHANGED <<now, started, config, remote, cache>>

\* Faulty variant: the clock is set to any other time, earlier ones included.
ClockJumps ==
    /\ now' \in (1..MaxClock) \ {now}
    /\ UNCHANGED <<started, config, remote, cache, heap, pc, client, call,
                   local, stats>>

\* Time passes.
Tick ==
    /\ now < MaxClock
    /\ now' = now + 1
    /\ UNCHANGED <<started, config, remote, cache, heap, pc, client, call,
                   local, stats>>

DirectMethods == {"listDirectory", "deleteFile", "refreshDirectory", "getFile"}

Step(r) ==
    \/ \E session \in BOOLEAN, b \in Bodies : POST(r, session, b)
    \/ \E m \in DirectMethods : Direct(r, m)
    \/ \E st \in Statuses : FetchResponse(r, st)
    \/ FetchThrows(r)
    \/ \E out \in LoginOutcomes(client[r]) : LoginResponse(r, out)
    \/ LoginThrows(r)
    \/ \E fr \in FileResponses : GetFileReturn(r, fr)
    \/ \E st \in Statuses : DownloadResponse(r, st)
    \/ DownloadThrows(r)
    \/ UploadFileReturn(r)
    \/ RefreshDirectoryReturn(r)
    \/ OtherReturn(r)
    \/ Respond(r)

\* Requests handled one after another: a request arrives when the one
\* before it was answered.
Next == Tick \/ Step("p1")

Spec == Init /\ [][Next]_vars

\* Interleaved corrections: one request more than there are tasks (so that
\* two can meet on a filled cache), each task suspended at its network
\* calls, on a client without a password (no login), with valid sessions
\* and bodies without optional fields; the server answers every request,
\* with success or with an error status.
InitConc ==
    /\ Init
    /\ config.Username = "u"
    /\ config.Password = Undef
    /\ remote.kind = "json"

ConcStatuses == {st \in Statuses : st # 401}

StepConc(r) ==
    \/ /\ started < Cardinality(Procs) + 1
       /\ \E f \in Folders : POST(r, TRUE, MakeBody(f, "101", NoPayload))
    \/ \E st \in ConcStatuses : FetchResponse(r, st)
    \/ \E fr \in {x \in FileResponses : x.valid} : GetFileReturn(r, fr)
    \/ \E st \in ConcStatuses : DownloadResponse(r, st)
    \/ UploadFileReturn(r)
    \/ RefreshDirectoryReturn(r)
    \/ Respond(r)

NextConc == Tick \/ \E r \in Procs : StepConc(r)

SpecConc == InitConc /\ [][NextConc]_vars

\* Corrections of one folder, one after another, under every configured
\* root path: valid sessions, bodies without optional fields, a client
\* without credentials, a server that answers every request.
InitPath ==
    /\ now = 1
    /\ started = 0
    /\ config \in {[URL |-> "http://o", Token |-> "t0", Username |-> Undef,
                     Password |-> Undef, RootPath |-> rp] : rp \in RootPaths}
    /\ remote \in {JSONstringify(d) : d \in InitialDocs}
    /\ cache = Null
    /\ heap = [r \in Procs |-> NoDoc]
    /\ pc = [r \in Procs |-> "idle"]
    /\ client = [r \in Procs |-> NoClient]
    /\ call = [r \in Procs |-> NoCall]
    /\ local = [r \in Procs |-> NoLocal]
    /\ stats = [r \in Procs |-> NoStats]

StepPath(r) ==
    \/ POST(r, TRUE, MakeBody("F", "101", NoPayload))
    \/ \E st \in ConcStatuses : FetchResponse(r, st)
    \/ \E fr \in {x \in FileResponses : x.valid} : GetFileReturn(r, fr)
    \/ \E st \in ConcStatuses : DownloadResponse(r, st)
    \/ UploadFileReturn(r)
    \/ RefreshDirectoryReturn(r)
    \/ Respond(r)

NextPath == StepPath("p1")

SpecPath == InitPath /\ [][NextPath]_vars

\* The steps by which a correction in flight goes on: an awaited outbound
\* call returns or throws and the handler runs up to its next await or to
\* its response.
Progress(r) ==
    \/ \E st \in Statuses : FetchResponse(r, st)
    \/ FetchThrows(r)
    \/ \E out \in LoginOutcomes(client[r]) : LoginResponse(r, out)
    \/ LoginThrows(r)
    \/ \E fr \in FileResponses : GetFileReturn(r, fr)
    \/ \E st \in Statuses : DownloadResponse(r, st)
    \/ DownloadThrows(r)
    \/ UploadFileReturn(r)
    \/ RefreshDirectoryReturn(r)

\* Corrections handled one after another, with or without a session, with
\* a complete body or one without folder, every outbound call eventually
\* returning or throwing.
StepLive(r) ==
    \/ \E session \in BOOLEAN, f \in {"F", Undef} :
          POST(r, session, MakeBody(f, "101", NoPayload))
    \/ Progress(r)
    \/ Respond(r)

NextLive == Tick \/ StepLive("p1")

SpecLive == Init /\ [][NextLive]_vars /\ WF_vars(Progress("p1"))

(* ------------------------------ claims -------------------------------- *)
\* The task's client was constructed with a username and a password.
BothCredentials(r) == client[r].username = "u" /\ client[r].password = "p"

\* The fetchWithRetry call of task r is over: it returned or it rejected.
CallOver(r) == pc[r] \in {"returned", "threw"}

\* The status of the first attempt of the current fetchWithRetry call.
FirstStatus(r) == IF call[r].retried THEN call[r].first ELSE call[r].response

\* C1 as stated: on a client with username and password, whenever the first
\* attempt of a call through the retry wrapper returned 401, the call makes
\* exactly one login and exactly one reissued request (two requests in all).
C1_AsStated ==
    \A r \in Procs :
        (CallOver(r) /\ BothCredentials(r) /\ FirstStatus(r) = 401)
            => (stats[r].logins = 1 /\ stats[r].requests = 2)

\* C1 amended: on a client with username and password, a call whose first
\* attempt returned 401 makes exactly one login; it reissues the request
\* exactly once when that login succeeded and not at all when it failed; a
\* reissued request answered 401 is the response returned; and no call ever
\* makes a second login or a third request.
C1_RetryOnce ==
    \A r \in Procs :
        /\ stats[r].logins <= 1
        /\ stats[r].requests <= 2
        /\ (CallOver(r) /\ BothCredentials(r) /\ FirstStatus(r) = 401)
              => /\ stats[r].logins = 1
                 /\ stats[r].requests = IF call[r].refreshed = "true" THEN 2 ELSE 1
        /\ (pc[r] = "returned" /\ call[r].retried)
              => (call[r].ret = 2 /\ stats[r].requests = 2)

\* A call whose first attempt and whose retry were both answered 401 returned.
C1_Witness ==
    \E r \in Procs :
        /\ pc[r] = "returned"
        /\ BothCredentials(r)
        /\ call[r].retried
        /\ call[r].first = 401
        /\ call[r].response = 401
        /\ call[r].ret = 2

\* C2: a login request is in flight only after a response of status 401 to
\* the first attempt on a client with username and password; a client lacking
\* one of them never logs in, never retries, and a 401 is returned to the
\* caller after exactly one request.
C2_LoginOnlyWhen ==
    \A r \in Procs :
        /\ pc[r] = "login"
              => /\ call[r].response = 401
                 /\ ~call[r].retried
                 /\ BothCredentials(r)
        /\ stats[r].logins > 0 => BothCredentials(r)
        /\ (call[r].op # "none" /\ ~BothCredentials(r))
              => /\ stats[r].logins = 0
                 /\ stats[r].requests = 1
                 /\ ~call[r].retried
                 /\ pc[r] # "login"
        /\ (pc[r] = "returned" /\ ~BothCredentials(r) /\ call[r].response = 401)
              => (call[r].ret = 1 /\ stats[r].requests = 1)

\* A client with a username and no password got 401 back from its call.
C2_Witness ==
    \E r \in Procs :
        /\ pc[r] = "returned"
        /\ client[r].username = "u"
        /\ client[r].password = Undef
        /\ call[r].response = 401
        /\ call[r].ret = 1

\* C3 as stated: every client method invoked by a caller makes at most one
\* login and at most one retried request from its start to its completion.
C3_AsStated ==
    \A r \in Procs : stats[r].opLogins <= 1 /\ stats[r].opRetries <= 1

\* C3 amended: every call through the retry wrapper makes at most one login
\* and at most one retried request; listDirectory, getFile, deleteFile and
\* refreshDirectory make one such call and so at most one login and one
\* retry; uploadFile makes two (the PUT and the directory refresh) and so at
\* most two logins and two retried requests.
C3_RetryBound ==
    \A r \in Procs :
        /\ stats[r].logins <= 1
        /\ stats[r].requests <= 2
        /\ stats[r].opLogins <= IF call[r].top = "uploadFile" THEN 2 ELSE 1
        /\ stats[r].opRetries <= IF call[r].top = "uploadFile" THEN 2 ELSE 1

\* An uploadFile whose PUT and whose directory refresh each logged in and
\* retried.
C3_Witness ==
    \E r \in Procs :
        /\ CallOver(r)
        /\ call[r].top = "uploadFile"
        /\ call[r].op = "refreshDirectory"
        /\ stats[r].opLogins = 2
        /\ stats[r].opRetries = 2

\* C4: when the login triggered by a 401 fails, the wrapper returns the
\* original 401 response, has issued no further request, and the client's
\* token is the one it held before the login (the one the request carried).
C4_FailedLogin ==
    \A r \in Procs :
        (pc[r] = "returned" /\ call[r].refreshed = "false")
            => /\ call[r].ret = 1
               /\ call[r].response = 401
               /\ ~call[r].retried
               /\ stats[r].requests = 1
               /\ client[r].token = call[r].auth

\* A call returned after one login that failed.
C4_Witness ==
    \E r \in Procs :
        /\ pc[r] = "returned"
        /\ call[r].refreshed = "false"
        /\ stats[r].logins = 1

\* C5: a successful login stores the token the login returned, and every
\* request in flight (the reissued one and every later one of the same
\* client) carries the token the client stores at that moment.
C5_CurrentToken ==
    [][\A r \in Procs :
          /\ pc'[r] = "fetch" => call'[r].auth = client'[r].token
          /\ (pc[r] = "login" /\ pc'[r] = "fetch")
                => client'[r].token = FreshToken(client[r].token)
          /\ (pc[r] = "login" /\ pc'[r] # "fetch")
                => client'[r].token = client[r].token]_vars

\* The upload of a correction whose getFile refreshed the token carries the
\* new token, not the configured one.
C5_Witness ==
    \E r \in Procs :
        /\ pc[r] = "fetch"
        /\ local[r].handler = "POST"
        /\ call[r].op = "uploadFile"
        /\ ~call[r].retried
        /\ call[r].auth = "t1"
        /\ config.Token = "t0"

\* C6: a correction whose PUT the server answered with success answers 200,
\* whatever the directory refresh did.
C6_UploadThenSuccess ==
    \A r \in Procs :
        (local[r].handler = "POST" /\ pc[r] = "done" /\ local[r].put)
            => local[r].status = 200

\* A correction answered after its directory refresh was answered 401 and
\* the login that followed failed.
C6_Witness ==
    \E r \in Procs :
        /\ local[r].handler = "POST"
        /\ pc[r] = "done"
        /\ local[r].put
        /\ call[r].op = "refreshDirectory"
        /\ call[r].response = 401
        /\ call[r].refreshed = "false"
        /\ stats[r].logins = 1

\* What a request field is stored as: itself, or the default when absent.
Submitted(v, default) == IF v = Undef THEN default ELSE v

\* The entry of folder g in a document or in a text (NoEntry when it has none).
NoEntry == [absent |-> TRUE]
EntryIn(doc, g) == IF g \in DOMAIN doc.folders THEN doc.folders[g] ELSE NoEntry

\* C7: when a correction answers 200, the remote metainfo.json parses to a
\* document whose entry for the folder holds the submitted tmdb_id, title,
\* poster_path, release_date, overview, vote_average and media_type (an
\* absent release_date or overview stored as the empty string, an absent
\* vote_average as 0), failed = false, and last_updated not earlier than the
\* arrival of the request.
C7_EntryStored ==
    \A r \in Procs :
        (local[r].handler = "POST" /\ pc[r] = "done" /\ local[r].status = 200)
            => LET b == local[r].body
                   e == EntryIn(JSONparse(remote), b.folder)
               IN  /\ remote.kind = "json"
                   /\ e # NoEntry
                   /\ Get(e, "tmdb_id") = b.tmdbId
                   /\ Get(e, "title") = b.title
                   /\ Get(e, "poster_path") = b.posterPath
                   /\ Get(e, "release_date") = Submitted(b.releaseDate, EmptyString)
                   /\ Get(e, "overview") = Submitted(b.overview, EmptyString)
                   /\ Get(e, "vote_average") = Submitted(b.voteAverage, Zero)
                   /\ Get(e, "media_type") = b.mediaType
                   /\ "failed" \in DOMAIN e /\ e.failed = FALSE
                   /\ "last_updated" \in DOMAIN e
                   /\ e.last_updated >= local[r].issued

\* A correction without optional fields, started on a cache miss, answered
\* 200 after the clock advanced.
C7_Witness ==
    \E r \in Procs :
        /\ local[r].handler = "POST"
        /\ pc[r] = "done"
        /\ local[r].status = 200
        /\ local[r].body.releaseDate = Undef
        /\ local[r].body.voteAverage = Undef
        /\ ~local[r].hit
        /\ local[r].stamp > local[r].issued

\* C8 as stated: no step of a correction of folder F changes the entry of
\* another folder, neither in the remote document nor in the cached one.
C8_AsStated ==
    [][\A r \in Procs :
          local'[r].handler = "POST"
             => \A g \in Folders \ {local'[r].body.folder} :
                   /\ EntryIn(remote', g) = EntryIn(remote, g)
                   /\ (cache # Null /\ cache' # Null)
                         => EntryIn(heap'[cache'], g) = EntryIn(heap[cache], g)]_vars

\* C9 as stated: when a correction answers anything but 200, the cache
\* entry of the root and the document it holds are what they were when the
\* request arrived.
C9_AsStated ==
    \A r \in Procs :
        (local[r].handler = "POST" /\ pc[r] = "done" /\ local[r].status # 200)
            => /\ cache = local[r].before.ref
               /\ cache # Null => heap[cache] = local[r].before.doc

\* C10: the remote text changes only in the step in which the server answers
\* the PUT of an uploadFile with success, and becomes the complete serialized
\* document that PUT carried; a correction that answers anything but 200 had
\* no PUT stored and leaves the remote text as it was when the request
\* arrived.
C10_AtomicOverwrite ==
    [][/\ remote' # remote
            => \E r \in Procs :
                  /\ pc[r] = "fetch"
                  /\ call[r].op = "uploadFile"
                  /\ local[r].content.kind = "json"
                  /\ local[r].content =
                        JSONstringify(heap[local[r].metaInfo])
                  /\ remote' = local[r].content
                  /\ local'[r].put
       /\ \A r \in Procs :
             (local'[r].handler = "POST" /\ pc'[r] = "done"
                 /\ local'[r].status # 200)
                => (~local'[r].put /\ remote' = local'[r].before.remote)]_vars

\* A correction answered 500 after its PUT was retried and refused.
C10_Witness ==
    \E r \in Procs :
        /\ local[r].handler = "POST"
        /\ pc[r] = "done"
        /\ local[r].status = 500
        /\ call[r].op = "uploadFile"
        /\ call[r].retried
        /\ remote = local[r].before.remote

\* C11: a correction request without a valid session is answered 401, one
\* with a valid session and no folder or no tmdbId is answered 400, one with
\* a valid session and both fields but no storage configuration is answered
\* 400; in all three cases no outbound request was issued, the Metadata
\* Cache was not consulted, and the cache entry, the document it holds and
\* the remote text are what they were when the request arrived.
C11_RejectedEarly ==
    \A r \in Procs :
        LET b == local[r].body
            noParam == b.folder = Undef \/ b.tmdbId = Undef
            noConfig == config.URL = Undef \/ config.Token = Undef
        IN  (local[r].handler = "POST" /\ pc[r] = "done"
                /\ (~local[r].session \/ noParam \/ noConfig))
               => /\ local[r].status = IF ~local[r].session THEN 401 ELSE 400
                  /\ call[r].op = "none"
                  /\ stats[r].requests = 0
                  /\ stats[r].logins = 0
                  /\ ~local[r].hit
                  /\ local[r].metaInfo = Null
                  /\ ~local[r].put
                  /\ cache = local[r].before.ref
                  /\ cache # Null => heap[cache] = local[r].before.doc
                  /\ remote = local[r].before.remote

\* A request with a valid session and a folder but no tmdbId, answered 400
\* while the cache holds the document of an earlier correction.
C11_Witness ==
    \E r \in Procs :
        /\ local[r].handler = "POST"
        /\ pc[r] = "done"
        /\ local[r].session
        /\ local[r].body.folder # Undef
        /\ local[r].body.tmdbId = Undef
        /\ local[r].status = 400
        /\ cache # Null

\* C12: for a correction that found no cached document and was answered 404
\* or 500 without an upload: when getFile returned an answer whose code is
\* not 200 or that carries no download URL the status is 404; when the
\* getFile call failed (network error, status not ok, body not JSON), when
\* the download failed (network error or status not ok) or when the
\* downloaded body is not JSON the status is 500; in all these cases no
\* upload request was issued and the remote text is untouched.
C12_MissFailures ==
    \A r \in Procs :
        LET fr == local[r].fileResponse
            cr == local[r].contentResponse
            miss == /\ local[r].handler = "POST"
                    /\ pc[r] = "done"
                    /\ call[r].op = "getFile"
            nothing == fr.valid /\ (fr.code # 200 \/ fr.raw_url = Undef)
            getFailed == ~fr.valid
            downloadFailed == fr.valid /\ fr.code = 200 /\ fr.raw_url # Undef
                                 /\ ~Ok(cr.status)
            badBody == Ok(cr.status) /\ cr.text.kind # "json"
        IN  /\ (miss /\ nothing) => local[r].status = 404
            /\ (miss /\ (getFailed \/ downloadFailed \/ badBody))
                   => local[r].status = 500
            /\ miss => /\ nothing \/ getFailed \/ downloadFailed \/ badBody
                       /\ ~local[r].hit
                       /\ local[r].before.ref = Null
                       /\ local[r].content = Malformed
                       /\ ~local[r].put
                       /\ stats[r].opRetries <= 1
                       /\ remote = local[r].before.remote
            /\ (local[r].handler = "POST" /\ pc[r] = "done"
                    /\ local[r].status = 404) => (miss /\ nothing)

\* A correction answered 404 because getFile returned code 200 without a
\* download URL.
C12_Witness ==
    \E r \in Procs :
        /\ local[r].handler = "POST"
        /\ pc[r] = "done"
        /\ local[r].status = 404
        /\ local[r].fileResponse.code = 200
        /\ local[r].fileResponse.raw_url = Undef

\* C13: when a correction answers 200 the cache entry of the root is the
\* document object the correction updated, holding the entry it wrote; a
\* cache entry once present is never absent again; and a correction that
\* arrives while the entry is present issues no getFile request and no
\* download.
C13_CachedAfterSuccess ==
    [][/\ \A r \in Procs :
             (local'[r].handler = "POST" /\ pc'[r] = "done"
                 /\ local'[r].status = 200)
                => /\ cache' # Null
                   /\ cache' = local'[r].metaInfo
                   /\ JSONstringify(heap'[cache']) = local'[r].content
                   /\ EntryIn(heap'[cache'], local'[r].body.folder)
                         = NewEntry(local'[r].body, local'[r].stamp)
       /\ cache # Null => cache' # Null
       /\ \A r \in Procs :
             (local'[r].handler = "POST" /\ local'[r].before.ref # Null)
                => /\ call'[r].op \in {"none", "uploadFile", "refreshDirectory"}
                   /\ pc'[r] # "download"
                   /\ local'[r].fileResponse = NoLocal.fileResponse
                   /\ local'[r].contentResponse = NoLocal.contentResponse
                   /\ call'[r].op # "none" => local'[r].hit]_vars

\* A correction that arrived after an earlier one had filled the cache and
\* was itself answered 200.
C13_Witness ==
    \E r \in Procs :
        /\ local[r].handler = "POST"
        /\ pc[r] = "done"
        /\ local[r].status = 200
        /\ local[r].before.ref # Null
        /\ local[r].hit
        /\ cache = local[r].metaInfo

\* C14 as stated: whenever no correction is in flight and the cache entry of
\* the root is present, the cached document serializes to the remote text.
C14_AsStated ==
    ((\A r \in Procs : pc[r] = "idle") /\ cache # Null)
        => JSONstringify(heap[cache]) = remote

\* Two corrections of distinct folders that were in flight at the same time
\* have both answered 200.
BothSucceeded(r, q) ==
    /\ r # q
    /\ local[r].handler = "POST" /\ local[q].handler = "POST"
    /\ pc[r] = "done" /\ pc[q] = "done"
    /\ local[r].status = 200 /\ local[q].status = 200
    /\ local[r].body.folder # local[q].body.folder
    /\ local[r].overlapped \/ local[q].overlapped

\* The remote text holds the entry correction r wrote.
RemoteHasEntryOf(r) ==
    EntryIn(remote, local[r].body.folder)
        = StringifyEntry(NewEntry(local[r].body, local[r].stamp))

\* C15 as stated: when two concurrent corrections of distinct folders have
\* both answered 200, the remote document holds the entry of each.
C15_AsStated ==
    \A r, q \in Procs :
        BothSucceeded(r, q) => (RemoteHasEntryOf(r) /\ RemoteHasEntryOf(q))

\* C15 amended: when two concurrent corrections of distinct folders have
\* both answered 200, the remote document is exactly the text one of the
\* two uploaded (the PUT stored last) and holds that correction's entry;
\* the entry of the other is not merged in.
C15_LastWriterWins ==
    \A r, q \in Procs :
        BothSucceeded(r, q)
            => \E w \in {r, q} :
                  /\ remote = local[w].content
                  /\ RemoteHasEntryOf(w)

\* Two concurrent corrections that both found the cached document and both
\* answered 200, the remote document lacking the entry of one of them.
C15_Witness ==
    \E r, q \in Procs :
        /\ BothSucceeded(r, q)
        /\ local[r].hit /\ local[q].hit
        /\ RemoteHasEntryOf(r)
        /\ ~RemoteHasEntryOf(q)

\* The entry of its folder that correction r found in the remote document
\* when it arrived was stored by an earlier correction (failed = false).
FoundCorrected(r) ==
    LET prev == EntryIn(local[r].before.remote, local[r].body.folder)
    IN  /\ local[r].handler = "POST"
        /\ pc[r] = "done"
        /\ local[r].status = 200
        /\ prev # NoEntry
        /\ prev.failed = FALSE

\* C16 as stated: a successful correction of a folder whose entry was stored
\* by an earlier successful correction stores a last_updated strictly
\* greater than that entry's.
C16_AsStated ==
    \A r \in Procs :
        FoundCorrected(r)
            => EntryIn(remote, local[r].body.folder).last_updated
                  > EntryIn(local[r].before.remote, local[r].body.folder).last_updated

\* C16 amended: a successful correction of a folder whose entry was stored
\* by an earlier successful correction stores the value Date.now() had when
\* it wrote the entry, which is greater than or equal to that entry's
\* last_updated.
C16_NonDecreasing ==
    \A r \in Procs :
        FoundCorrected(r)
            => /\ EntryIn(remote, local[r].body.folder).last_updated
                      = local[r].stamp
               /\ local[r].stamp
                      >= EntryIn(local[r].before.remote, local[r].body.folder).last_updated

\* Two successive successful corrections of one folder stamped with the
\* same value of the clock.
C16_Witness ==
    \E r \in Procs :
        /\ FoundCorrected(r)
        /\ local[r].stamp
              = EntryIn(local[r].before.remote, local[r].body.folder).last_updated

\* An entry without its last_updated.
Unstamped(e) == [k \in (DOMAIN e) \ {"last_updated"} |-> e[k]]

\* Documents (or texts) d1 and d2 have the same folders with the same
\* entries, except that the last_updated of folder f in d2 is greater than
\* or equal to the one in d1.
SameExceptStamp(d1, d2, f) ==
    /\ DOMAIN d1.folders = DOMAIN d2.folders
    /\ \A g \in (DOMAIN d1.folders) \ {f} : d1.folders[g] = d2.folders[g]
    /\ f \in DOMAIN d1.folders
    /\ Unstamped(d1.folders[f]) = Unstamped(d2.folders[f])
    /\ d2.folders[f].last_updated >= d1.folders[f].last_updated

\* Correction r arrived right after a successful submission of the same
\* correction: the cached document, which the remote text is the
\* serialization of, holds for the folder the entry of this very body.
Resubmitted(r) ==
    /\ local[r].handler = "POST"
    /\ pc[r] = "done"
    /\ local[r].session
    /\ local[r].before.ref # Null
    /\ JSONstringify(local[r].before.doc) = local[r].before.remote
    /\ EntryIn(local[r].before.doc, local[r].body.folder) # NoEntry
    /\ Unstamped(EntryIn(local[r].before.doc, local[r].body.folder))
          = Unstamped(NewEntry(local[r].body, 0))

\* C17: when a correction is submitted again right after it succeeded, then
\* once the second submission is answered the remote text and the cached
\* document are what they were after the first one, except that the
\* last_updated of the target entry is greater than or equal to its earlier
\* value.
C17_Idempotent ==
    \A r \in Procs :
        Resubmitted(r)
            => /\ remote.kind = "json"
               /\ SameExceptStamp(local[r].before.remote, remote,
                                   local[r].body.folder)
               /\ cache = local[r].before.ref
               /\ SameExceptStamp(local[r].before.doc, heap[cache],
                                   local[r].body.folder)

\* A correction with optional fields left out, submitted again after the
\* clock advanced and answered 200: the entry differs by its last_updated.
C17_Witness ==
    \E r \in Procs :
        /\ Resubmitted(r)
        /\ local[r].status = 200
        /\ local[r].body.overview = Undef
        /\ remote # local[r].before.remote
        /\ local[r].stamp
              > EntryIn(local[r].before.remote, local[r].body.folder).last_updated

\* A path without the separators it ends with.
RECURSIVE Stem(_)
Stem(q) == IF EndsWithSeparator(q) THEN Stem(SubSeq(q, 1, Len(q) - 1)) ELSE q

\* The root path in force: the configured one, "/" when none is given.
EffectiveRoot ==
    IF config.RootPath.given /\ config.RootPath.path # <<>>
    THEN config.RootPath.path
    ELSE <<Separator>>

\* C18 as stated: for every configured root path, the path a correction
\* gives to uploadFile is the root, exactly one separator, then
\* metainfo.json (root /media gives /media/metainfo.json, root / and an
\* absent root give /metainfo.json), and it equals the path given to getFile
\* when the document was fetched.
C18_AsStated ==
    \A r \in Procs :
        (local[r].handler = "POST" /\ local[r].uploadPath # <<>>)
            => /\ local[r].uploadPath
                     = Stem(EffectiveRoot) \o <<Separator, FileName>>
               /\ local[r].metainfoPath # <<>>
                     => local[r].metainfoPath = local[r].uploadPath

\* The statuses the endpoint answers with.
ResponseStatuses == {200, 400, 401, 404, 500}

\* C19: when every awaited outbound call eventually returns or throws, a
\* correction request is eventually answered; a correction has a status
\* exactly while its response is produced and not yet delivered, the status
\* is 200, 400, 401, 404 or 500, it is never changed afterwards, and the
\* correction issued at most 10 outbound requests (getFile, PUT and
\* directory refresh at most twice each with at most one login each, and
\* one download).
C19_Terminates ==
    /\ \A r \in Procs :
          (local[r].handler = "POST" /\ pc[r] # "done") ~> (pc[r] = "done")
    /\ [](\A r \in Procs :
            local[r].handler = "POST"
               => /\ stats[r].sent <= 10
                  /\ pc[r] = "done" <=> local[r].status # 0
                  /\ pc[r] = "done" => local[r].status \in ResponseStatuses)
    /\ [][\A r \in Procs :
             (local[r].handler = "POST" /\ pc[r] = "done")
                => (pc'[r] = "idle" \/ local'[r].status = local[r].status)]_vars

\* A correction answered 500 after three outbound requests: its getFile was
\* answered 401, the login succeeded, the reissued getFile was answered 401.
C19_Witness ==
    \E r \in Procs :
        /\ local[r].handler = "POST"
        /\ pc[r] = "done"
        /\ local[r].status = 500
        /\ call[r].op = "getFile"
        /\ call[r].retried
        /\ call[r].first = 401
        /\ call[r].response = 401
        /\ call[r].refreshed = "true"
        /\ stats[r].sent = 3

====
